---- MODULE Spec2Model ----
(***************************************************************************)
(* WhenInRome: greedy search for the clang-format settings that best match *)
(* a source sample, with a disk cache of the per-candidate artifacts.      *)
(* The model follows src/WhenInRome.py: the assembly of the canonical      *)
(* sample, the FileCache, the two batches of child processes of            *)
(* experimentForOption and the acceptance step, over one or several runs   *)
(* of the program against the same dump directory.                         *)
(***************************************************************************)
EXTENDS Integers, Sequences, FiniteSets, TLC

VARIABLES
    run,                \* number of program runs started so far
    pc,                 \* position of the main process
    inputFiles,         \* contents of the files named by args.input
    formattingOptions,  \* the parsed option list of this run
    canon,              \* disk: the canonical sample <dumpDir>/input<ext>
    iters,              \* disk: the directories <dumpDir>/iter<N>
    inputSC,            \* InputSourceCode: numLines, dirty
    fileCache,          \* FileCache: _iter, _cacheDirty
    baseStyle,          \* the accumulated style (main's baseStyle)
    prevScore,          \* main's running threshold
    optIdx,             \* number of option entries main's loop has consumed
    valNames,           \* experimentForOption's list of candidate names
    fmtProcs,           \* procList of the formatter batch
    diffProcs,          \* procList of the diff batch
    errMsg,             \* the artifact named by the fatal error, if any
    out,                \* the final style printed, if any
    iterLog,            \* what startIteration found and did for this iteration
    rerun,              \* this run repeats the previous, completed run's input
    prevStyle           \* final style of the previous run when rerun

vars == <<run, pc, inputFiles, formattingOptions, canon, iters, inputSC,
          fileCache, baseStyle, prevScore, optIdx, valNames, fmtProcs,
          diffProcs, errMsg, out, iterLog, rerun, prevStyle>>

(***************************************************************************)
(* Bounds of the model                                                     *)
(***************************************************************************)
\* longest input file, in characters
MaxFileLen == 1
\* most lines in which a formatter output differs from the sample
MaxChanged == 2
\* most runs of the program against one dump directory
MaxRuns == 2

(***************************************************************************)
(* Helpers on sequences                                                    *)
(***************************************************************************)
MinOf(S) == CHOOSE x \in S : \A y \in S : x <= y

MaxOf(S) == CHOOSE x \in S : \A y \in S : x >= y

SeqsUpTo(S, n) == UNION {[1..k -> S] : k \in 0..n}

Range(s) == {s[i] : i \in 1..Len(s)}

RECURSIVE Flatten(_)
Flatten(ss) == IF ss = <<>> THEN <<>> ELSE Head(ss) \o Flatten(Tail(ss))

(***************************************************************************)
(* Text files: a file is a sequence of characters; "\n" ends a line.       *)
(***************************************************************************)
Chars == {"a", "\n"}

\* f.readlines(): the lines of the file, each with its terminator; the last
\* line has none when the file does not end with one.
RECURSIVE readlines(_)
readlines(bytes) ==
    IF bytes = <<>> THEN <<>>
    ELSE LET nl == {i \in 1..Len(bytes) : bytes[i] = "\n"} IN
         IF nl = {} THEN <<bytes>>
         ELSE LET k == MinOf(nl) IN
              <<SubSeq(bytes, 1, k)>> \o readlines(SubSeq(bytes, k + 1, Len(bytes)))

\* outf.writelines(lines): the strings written one after the other.
writelines(lines) == Flatten(lines)

separator == <<<<"\n">>>>

\* The loop of InputSourceCode.__init__ over the input files.
RECURSIVE allLinesOf(_)
allLinesOf(files) ==
    IF files = <<>> THEN <<>>
    ELSE readlines(Head(files)) \o separator \o allLinesOf(Tail(files))

\* InputSourceCode.__init__: the canonical copy written, numLines and dirty.
\* oldCanon is <<>> when no canonical copy exists, <<bytes>> otherwise.
InputSourceCode(oldCanon, files) ==
    LET oldContent == IF oldCanon = <<>> THEN <<>> ELSE readlines(oldCanon[1])
        allLines   == allLinesOf(files)
    IN  [written  |-> writelines(allLines),
         numLines |-> Len(allLines),
         dirty    |-> oldContent # allLines]

\* Lines of the canonical sample as the diff program sees them.
SampleLines(bytes) == Len(readlines(bytes))

(***************************************************************************)
(* Python values, dictionaries and their serialisations                    *)
(***************************************************************************)
\* A scalar of the option file: its type and its printed form.
PyStr(s) == [t |-> "str", s |-> s]

PyInt(s) == [t |-> "int", s |-> s]

\* str(value): an int prints its digits, a string is itself.
str(value) == value.s

\* A dict is the sequence of its <<key, value>> items in insertion order.
dictKeys(d) == [i \in 1..Len(d) |-> d[i][1]]

dictHas(d, k) == \E i \in 1..Len(d) : d[i][1] = k

dictGet(d, k) == d[CHOOSE i \in 1..Len(d) : d[i][1] = k][2]

\* d[k] = v: an existing key keeps its position, a new key goes last.
dictSet(d, k, v) ==
    IF dictHas(d, k)
    THEN [i \in 1..Len(d) |-> IF d[i][1] = k THEN <<k, v>> ELSE d[i]]
    ELSE Append(d, <<k, v>>)

\* d.update(other)
RECURSIVE dictUpdate(_, _)
dictUpdate(d, other) ==
    IF other = <<>> THEN d
    ELSE dictUpdate(dictSet(d, Head(other)[1], Head(other)[2]), Tail(other))

\* json.dumps of a scalar: strings are quoted, ints are not.
jsonScalar(v) == IF v.t = "str" THEN <<"\"", v.s, "\"">> ELSE <<v.s>>

\* json.dumps(baseStyle): the items in insertion order, as a token string.
RECURSIVE jsonItems(_)
jsonItems(d) ==
    IF d = <<>> THEN <<>>
    ELSE <<"\"", Head(d)[1], "\"", ":">> \o jsonScalar(Head(d)[2]) \o <<",">>
         \o jsonItems(Tail(d))

jsonDumps(d) == <<"{">> \o jsonItems(d) \o <<"}">>

\* Strings yaml.dump quotes because they would read back as numbers.
NumericLooking == {"2", "80", "100", "120"}

yamlScalar(v) ==
    IF v.t = "str" /\ v.s \in NumericLooking THEN <<"'", v.s, "'">> ELSE <<v.s>>

\* yaml.dump(style): one "key: value" line per item, sorted by key, so the
\* document is determined by the set of its lines.
yamlDump(d) == {<<d[i][1], yamlScalar(d[i][2])>> : i \in 1..Len(d)}

(***************************************************************************)
(* Option lists                                                            *)
(***************************************************************************)
\* A candidate of the option file: a bare value, or a one-item dict
\* {alias: override mapping}.
Bare(v) == [isDict |-> FALSE, val |-> v, map |-> <<>>]

Alias(name, map) == [isDict |-> TRUE, val |-> name, map |-> map]

OptEntry(key, values) == [key |-> key, values |-> values]

UseTabOpt == OptEntry("UseTab", <<Bare(PyStr("Never")), Bare(PyStr("Always"))>>)

IndentOpt == OptEntry("IndentWidth", <<Bare(PyInt("2"))>>)

ColumnOpt == OptEntry("ColumnLimit", <<Bare(PyInt("80")), Bare(PyInt("100"))>>)

\* Three candidates, so that two of them can tie below the third.
ColumnOpt3 ==
    OptEntry("ColumnLimit",
             <<Bare(PyInt("80")), Bare(PyInt("100")), Bare(PyInt("120"))>>)

\* The int 2 and an alias spelled "2".
IndentAliasOpt ==
    OptEntry("IndentWidth",
             <<Bare(PyInt("2")),
               Alias(PyStr("2"), <<<<"IndentWidth", PyInt("2")>>,
                                   <<"UseTab", PyStr("Never")>>>>)>>)

\* A second entry for the key UseTab, with another candidate.
UseTabOpt2 ==
    OptEntry("UseTab", <<Bare(PyStr("ForIndentation")), Bare(PyStr("Always"))>>)

\* One alias candidate, and the same alias after an edit of its override.
WideOptA == OptEntry("TabWidth", <<Alias(PyStr("wide"), <<<<"TabWidth", PyInt("8")>>>>)>>)

WideOptB == OptEntry("TabWidth", <<Alias(PyStr("wide"), <<<<"TabWidth", PyInt("4")>>>>)>>)

\* A bare value and an alias: ColumnLimit: [80, {wide: {ColumnLimit: 120}}].
ColumnAliasOpt ==
    OptEntry("ColumnLimit",
             <<Bare(PyInt("80")),
               Alias(PyStr("wide"), <<<<"ColumnLimit", PyInt("120")>>>>)>>)

MasterList == <<UseTabOpt, IndentOpt, ColumnOpt>>

Prefixes(s) == {SubSeq(s, 1, k) : k \in 1..Len(s)}

\* Option files of the single-run specification.
OptionLists ==
    Prefixes(MasterList)
        \cup {<<ColumnOpt3>>, <<IndentAliasOpt>>, <<UseTabOpt, UseTabOpt2>>,
              <<ColumnAliasOpt>>}

\* Option files of the multi-run specification.
RerunOptionLists ==
    Prefixes(<<UseTabOpt, IndentOpt>>) \cup Prefixes(<<WideOptA, IndentOpt>>)
        \cup {<<WideOptB>>, <<UseTabOpt2, IndentOpt>>}

\* Option files of the specification where the list is shortened and
\* lengthened again between runs.
ShrinkOptionLists == Prefixes(<<IndentOpt, ColumnOpt>>)

AllOptionLists == OptionLists \cup RerunOptionLists \cup ShrinkOptionLists

MaxIter == MaxOf({Len(l) : l \in AllOptionLists})

\* Input file lists of the single-run specification.
InputFileLists ==
    {<<f>> : f \in SeqsUpTo(Chars, MaxFileLen)} \cup {<<<<"a">>, <<"a", "\n">>>>}

\* Input file lists of the multi-run specification.
RerunFileLists == {<<<<"a", "\n">>>>, <<<<"a">>>>, <<<<>>>>}

\* Input file lists of the specification with a shortened option list: two
\* samples, each ending with a line terminator.
ShrinkFileLists == {<<<<"a", "\n">>>>, <<<<>>>>}

\* experimentForOption, lines 216-225: the dict name -> override of an option.
RECURSIVE valNamesAndStyles(_, _)
valNamesAndStyles(key, values) ==
    IF values = <<>> THEN <<>>
    ELSE LET val  == values[Len(values)]
             vkey == val.val
             vval == IF val.isDict THEN val.map ELSE <<<<key, val.val>>>>
         IN  dictSet(valNamesAndStyles(key, SubSeq(values, 1, Len(values) - 1)),
                     vkey, vval)

AllNames ==
    UNION {UNION {Range(dictKeys(valNamesAndStyles(l[i].key, l[i].values)))
                  : i \in 1..Len(l)} : l \in AllOptionLists}

DirNames == {str(n) : n \in AllNames}

(***************************************************************************)
(* The dump directory.  A file is <<>> when absent and <<content>> when    *)
(* present.  A formatted or diff artifact of size 0 has empty = TRUE.      *)
(***************************************************************************)
NoDir == [exists |-> FALSE, style |-> <<>>, fmt |-> <<>>, diff |-> <<>>]

EmptyDir == [NoDir EXCEPT !.exists = TRUE]

NoIter == [exists |-> FALSE, key |-> <<>>, baseStyle |-> <<>>,
           sub |-> [d \in DirNames |-> NoDir]]

EmptyIter == [NoIter EXCEPT !.exists = TRUE]

\* What the shell's redirection leaves before the command writes: size 0.
EmptyText == [empty |-> TRUE, chg |-> 0, src |-> <<>>, sty |-> {}]

\* Paths, as <<directory, iteration, subdirectory, file>>.
InputPath == <<"dumpDir", 0, "", "input">>

getValueDir(it, value) == <<"dumpDir", it, str(value)>>

fmtName == "formatted"

getFmtFilename(it, value) == <<"dumpDir", it, str(value), fmtName>>

getDiffFilename(it, value) == <<"dumpDir", it, str(value), "formatted.diff">>

getStyleFilename(it, value) == <<"dumpDir", it, str(value), ".clang-format">>

\* The directory a file path lies in.
DirOf(path) == <<path[1], path[2], path[3]>>

\* os.path.exists(filename) and os.path.getsize(filename) > 0
NonEmptyFile(f) == f # <<>> /\ ~f[1].empty

hasFmtCache(ds, it, value) == NonEmptyFile(ds[it].sub[str(value)].fmt)

hasDiffCache(ds, it, value) == NonEmptyFile(ds[it].sub[str(value)].diff)

\* Mutant of writeStyleFile: the style file is written on every call.
mutWriteStyleAlways(ds, it, value, style) ==
    [ds EXCEPT ![it].sub[str(value)].style = <<yamlDump(style)>>]

\* FileCache.writeStyleFile: written only when no style file exists.
writeStyleFile(ds, it, value, style) ==
    IF ds[it].sub[str(value)].style # <<>> THEN ds
    ELSE [ds EXCEPT ![it].sub[str(value)].style = <<yamlDump(style)>>]

\* FileCache._readIterFileContent: '' when the file is not found.
readIterKey(ds, it) == IF ds[it].key = <<>> THEN "" ELSE ds[it].key[1]

readIterBaseStyle(ds, it) ==
    IF ds[it].baseStyle = <<>> THEN <<>> ELSE ds[it].baseStyle[1]

ensureIterFolderExists(ds, it) ==
    IF ds[it].exists THEN ds ELSE [ds EXCEPT ![it] = EmptyIter]

\* shutil.rmtree(dirPath)
rmtree(ds, it) == [ds EXCEPT ![it] = NoIter]

\* The loop of startIteration creating one subfolder per value.
RECURSIVE makeValueDirs(_, _, _)
makeValueDirs(ds, it, values) ==
    IF values = <<>> THEN ds
    ELSE LET d == str(Head(values)) IN
         makeValueDirs(IF ds[it].sub[d].exists THEN ds
                       ELSE [ds EXCEPT ![it].sub[d] = EmptyDir],
                       it, Tail(values))

\* Mutant of initCacheDirty: the cache ignores the sample's dirty flag.
mutInitCacheClean(sc) == FALSE

\* FileCache.__init__: what _cacheDirty starts as.
initCacheDirty(sc) == sc.dirty

\* Mutant of staleSignature: the recorded key is not compared.
mutStaleBaseStyleOnly(ds, it, key, baseStyleStr) ==
    readIterBaseStyle(ds, it) # baseStyleStr

\* The staleness test of startIteration, lines 120-124.
staleSignature(ds, it, key, baseStyleStr) ==
    readIterBaseStyle(ds, it) # baseStyleStr \/ readIterKey(ds, it) # key

\* What is noted of a call of startIteration: whether the directory was
\* removed, whether the recorded signature equalled the new one, whether a
\* signature was recorded at all, and _cacheDirty before the call.
NoLog == [removed |-> FALSE, sameSig |-> FALSE, hadSig |-> FALSE, wasDirty |-> FALSE]

\* Mutant of startIteration: a stale signature removes the directory of
\* this iteration but is not remembered in _cacheDirty.
mutStartIterationForgets(ds, fc, key, style, values) ==
    LET it           == fc.iter + 1
        ds1          == ensureIterFolderExists(ds, it)
        baseStyleStr == jsonDumps(style)
        cacheDirty   == fc.cacheDirty \/ staleSignature(ds1, it, key, baseStyleStr)
        ds2          == IF cacheDirty
                        THEN ensureIterFolderExists(rmtree(ds1, it), it)
                        ELSE ds1
        ds3          == [ds2 EXCEPT ![it].key = <<key>>,
                                    ![it].baseStyle = <<baseStyleStr>>]
    IN  [iters |-> makeValueDirs(ds3, it, values),
         fc    |-> [iter |-> it, cacheDirty |-> fc.cacheDirty],
         log   |-> [removed  |-> cacheDirty,
                    sameSig  |-> ~staleSignature(ds1, it, key, baseStyleStr),
                    hadSig   |-> ds1[it].key # <<>>,
                    wasDirty |-> fc.cacheDirty]]

\* FileCache.startIteration: the disk and the cache object after the call.
startIteration(ds, fc, key, style, values) ==
    LET it           == fc.iter + 1
        ds1          == ensureIterFolderExists(ds, it)
        baseStyleStr == jsonDumps(style)
        cacheDirty   == fc.cacheDirty \/ staleSignature(ds1, it, key, baseStyleStr)
        ds2          == IF cacheDirty
                        THEN ensureIterFolderExists(rmtree(ds1, it), it)
                        ELSE ds1
        ds3          == [ds2 EXCEPT ![it].key = <<key>>,
                                    ![it].baseStyle = <<baseStyleStr>>]
    IN  [iters |-> makeValueDirs(ds3, it, values),
         fc    |-> [iter |-> it, cacheDirty |-> cacheDirty],
         log   |-> [removed  |-> cacheDirty,
                    sameSig  |-> ~staleSignature(ds1, it, key, baseStyleStr),
                    hadSig   |-> ds1[it].key # <<>>,
                    wasDirty |-> fc.cacheDirty]]

(***************************************************************************)
(* The external programs                                                   *)
(***************************************************************************)
\* What clang-format may print for the sample `bytes` under the style file
\* of its working directory: nothing (an invalid option, or an empty
\* result), or a text that differs from the sample in chg lines (the lines
\* of the sample it drops plus the lines it adds).
FormatterOutputs(bytes, styleFile) ==
    {EmptyText} \cup
    {[empty |-> FALSE, chg |-> c, src |-> bytes,
      sty |-> IF styleFile = <<>> THEN {} ELSE styleFile[1]] : c \in 0..MaxChanged}

\* The unified diff of the sample and a text that differs from it in c
\* lines: empty when the two are equal.
DiffText(bytes, c) ==
    IF c = 0 THEN EmptyText
    ELSE [empty |-> FALSE, chg |-> c, src |-> bytes, sty |-> {}]

\* What `diff -u sample formatted` may print.  A formatted file made from
\* another sample compares in a way its recorded count does not tell.
DiffOutputs(bytes, fmtFile) ==
    IF fmtFile = <<>> THEN {EmptyText}
    ELSE IF fmtFile[1].empty THEN {DiffText(bytes, SampleLines(bytes))}
    ELSE IF fmtFile[1].src = bytes THEN {DiffText(bytes, fmtFile[1].chg)}
    ELSE {DiffText(bytes, c) : c \in 0..MaxChanged}

\* grep -e "^[\+\-]" diffFile | wc -l: the removed and the added lines and
\* the two header lines "--- " and "+++ " of a non-empty unified diff.
scoreOf(diffFile) ==
    IF ~NonEmptyFile(diffFile) THEN 0
    ELSE 2 + diffFile[1].chg

(***************************************************************************)
(* experimentForOption                                                     *)
(***************************************************************************)
\* Lines 231-243: the style files written and the commands to run.
RECURSIVE fmtLoop(_, _, _, _, _)
fmtLoop(ds, it, style, nas, names) ==
    IF names = <<>> THEN [iters |-> ds, toRun |-> <<>>]
    ELSE LET valName == Head(names)
             todo    == ~hasFmtCache(ds, it, valName)
             ds1     == IF todo
                        THEN writeStyleFile(ds, it, valName,
                                            dictUpdate(style, dictGet(nas, valName)))
                        ELSE ds
             rest    == fmtLoop(ds1, it, style, nas, Tail(names))
         IN  [iters |-> rest.iters,
              toRun |-> IF todo THEN <<valName>> \o rest.toRun ELSE rest.toRun]

\* Lines 254-260: the values whose diff is to be computed.
RECURSIVE diffLoop(_, _, _)
diffLoop(ds, it, names) ==
    IF names = <<>> THEN <<>>
    ELSE (IF hasDiffCache(ds, it, Head(names)) THEN <<>> ELSE <<Head(names)>>)
         \o diffLoop(ds, it, Tail(names))

\* Mutant of notGenerated: the check of the outputs is left out.
mutNotGeneratedNone(ds, it, names) == <<>>

\* Lines 247-251: the values whose formatted file is missing or empty.
RECURSIVE notGenerated(_, _, _)
notGenerated(ds, it, names) ==
    IF names = <<>> THEN <<>>
    ELSE (IF hasFmtCache(ds, it, Head(names)) THEN <<>> ELSE <<Head(names)>>)
         \o notGenerated(ds, it, Tail(names))

\* subprocess.Popen for every command: the child processes of a batch.
popenAll(toRun) ==
    [i \in 1..Len(toRun) |-> [val |-> toRun[i], st |-> "running", wrote |-> {}]]

\* Mutant of waitAll: only the first child is waited for.
mutWaitFirst(procList) == procList = <<>> \/ procList[1].st = "exited"

\* for proc in procList: proc.wait()
waitAll(procList) == \A i \in 1..Len(procList) : procList[i].st = "exited"

\* Lines 264-270: (diffVal, val) for each value, in the order of valNames.
resultsOf(ds, it, names) ==
    [i \in 1..Len(names) |-> <<scoreOf(ds[it].sub[str(names[i])].diff), names[i]>>]

\* Mutant of insertResult: equal scores are put in reverse order.
mutInsertUnstable(sorted, x) ==
    LET k == Cardinality({i \in 1..Len(sorted) : sorted[i][1] < x[1]})
    IN  SubSeq(sorted, 1, k) \o <<x>> \o SubSeq(sorted, k + 1, Len(sorted))

\* results.sort(key=lambda x: x[0]): a stable sort by ascending score.
insertResult(sorted, x) ==
    LET k == Cardinality({i \in 1..Len(sorted) : sorted[i][1] <= x[1]})
    IN  SubSeq(sorted, 1, k) \o <<x>> \o SubSeq(sorted, k + 1, Len(sorted))

RECURSIVE sortResults(_)
sortResults(results) ==
    IF results = <<>> THEN <<>>
    ELSE insertResult(sortResults(SubSeq(results, 1, Len(results) - 1)),
                      results[Len(results)])

\* Mutant of ignoreOption: a tie among the candidates is not ignored.
mutIgnoreNoTie(minVal, maxVal, prev) == minVal >= prev

\* Mutant of ignoreOption: a score equal to the threshold is accepted.
mutIgnoreStrict(minVal, maxVal, prev) == (minVal = maxVal) \/ (minVal > prev)

\* Lines 277-279: whether the option is ignored.
ignoreOption(minVal, maxVal, prev) == (minVal = maxVal) \/ (minVal >= prev)

\* Mutant of nextPrevScore: the threshold is the best score so far.
mutNextPrevBest(minVal, prev) == IF minVal < prev THEN minVal ELSE prev

\* Line 294 and main's line 329: the threshold handed to the next option.
nextPrevScore(minVal, prev) == minVal

\* main, line 326
initialPrevScore(sc) == sc.numLines * 4

(***************************************************************************)
(* The state machine                                                       *)
(***************************************************************************)
\* The option entry being processed, and its iteration slot.
\* Mutant of curOpt: the loop looks at the first option every time.
mutCurOptFirst == formattingOptions[1]

curOpt == formattingOptions[optIdx + 1]

curIter == fileCache.iter

canonBytes == canon[1]

Init ==
    /\ run = 0
    /\ pc = "idle"
    /\ inputFiles = <<>>
    /\ formattingOptions = <<>>
    /\ canon = <<>>
    /\ iters = [i \in 1..MaxIter |-> NoIter]
    /\ inputSC = [numLines |-> 0, dirty |-> FALSE]
    /\ fileCache = [iter |-> 0, cacheDirty |-> FALSE]
    /\ baseStyle = <<>>
    /\ prevScore = 0
    /\ optIdx = 0
    /\ valNames = <<>>
    /\ fmtProcs = <<>>
    /\ diffProcs = <<>>
    /\ errMsg = <<>>
    /\ out = <<>>
    /\ iterLog = NoLog
    /\ rerun = FALSE
    /\ prevStyle = <<>>

\* main, lines 317-326: a run of the program starts, after the previous one
\* (if any) has ended, on the given input files and option file.
MainStart(limit, fileLists, optLists) ==
    /\ pc \in {"idle", "done", "aborted"}
    /\ run < limit
    /\ \E files \in fileLists, opts \in optLists :
          LET sc == InputSourceCode(canon, files) IN
          /\ inputFiles' = files
          /\ formattingOptions' = opts
          /\ canon' = <<sc.written>>
          /\ inputSC' = [numLines |-> sc.numLines, dirty |-> sc.dirty]
          /\ fileCache' = [iter |-> 0, cacheDirty |-> initCacheDirty(sc)]
          /\ prevScore' = initialPrevScore(sc)
          /\ rerun' = (pc = "done" /\ files = inputFiles /\ opts = formattingOptions)
          /\ prevStyle' = IF rerun' THEN baseStyle ELSE <<>>
    /\ run' = run + 1
    /\ pc' = "main"
    /\ baseStyle' = <<>>
    /\ optIdx' = 0
    /\ valNames' = <<>>
    /\ fmtProcs' = <<>>
    /\ diffProcs' = <<>>
    /\ errMsg' = <<>>
    /\ out' = <<>>
    /\ iterLog' = NoLog
    /\ UNCHANGED iters

\* experimentForOption, lines 214-244 up to the Popen calls: the names, the
\* iteration, the style files, and the formatter batch dispatched.
ExperimentStart ==
    /\ pc = "main"
    /\ optIdx < Len(formattingOptions)
    /\ \E nas \in {valNamesAndStyles(curOpt.key, curOpt.values)} :
       \E names \in {dictKeys(nas)} :
       \E si \in {startIteration(iters, fileCache, curOpt.key, baseStyle, names)} :
       \E fl \in {fmtLoop(si.iters, si.fc.iter, baseStyle, nas, names)} :
           /\ valNames' = names
           /\ fileCache' = si.fc
           /\ iterLog' = si.log
           /\ iters' = fl.iters
           /\ fmtProcs' = popenAll(fl.toRun)
    /\ diffProcs' = <<>>
    /\ pc' = "fmt"
    /\ UNCHANGED <<run, inputFiles, formattingOptions, canon, inputSC, baseStyle,
                   prevScore, optIdx, errMsg, out, rerun, prevStyle>>

\* A formatter child: its shell opens (creates or truncates) the output file
\* `formatted` in the child's working directory.
FmtOpen(i) ==
    /\ pc = "fmt"
    /\ i \in 1..Len(fmtProcs)
    /\ fmtProcs[i].st = "running"
    /\ LET d == str(fmtProcs[i].val) IN
       /\ iters' = [iters EXCEPT ![curIter].sub[d].fmt = <<EmptyText>>]
       /\ fmtProcs' = [fmtProcs EXCEPT
                         ![i].st = "opened",
                         ![i].wrote = @ \cup {getFmtFilename(curIter, fmtProcs[i].val)}]
    /\ UNCHANGED <<run, pc, inputFiles, formattingOptions, canon, inputSC,
                   fileCache, baseStyle, prevScore, optIdx, valNames, diffProcs,
                   errMsg, out, iterLog, rerun, prevStyle>>

\* A formatter child: clang-format reads the sample and the style file of
\* its directory, writes its output and exits.
FmtExit(i) ==
    /\ pc = "fmt"
    /\ i \in 1..Len(fmtProcs)
    /\ fmtProcs[i].st = "opened"
    /\ LET d == str(fmtProcs[i].val) IN
       \E o \in FormatterOutputs(canonBytes, iters[curIter].sub[d].style) :
          iters' = [iters EXCEPT ![curIter].sub[d].fmt = <<o>>]
    /\ fmtProcs' = [fmtProcs EXCEPT ![i].st = "exited"]
    /\ UNCHANGED <<run, pc, inputFiles, formattingOptions, canon, inputSC,
                   fileCache, baseStyle, prevScore, optIdx, valNames, diffProcs,
                   errMsg, out, iterLog, rerun, prevStyle>>

\* experimentForOption, lines 244-261: the formatter batch has been waited
\* for; the outputs are checked and the diff batch is dispatched.
FmtJoin ==
    /\ pc = "fmt"
    /\ waitAll(fmtProcs)
    /\ \E missing \in {notGenerated(iters, curIter, valNames)} :
       IF missing # <<>>
       THEN /\ errMsg' = <<getFmtFilename(curIter, Head(missing))>>
            /\ pc' = "aborted"
            /\ UNCHANGED diffProcs
       ELSE /\ diffProcs' = popenAll(diffLoop(iters, curIter, valNames))
            /\ pc' = "diff"
            /\ UNCHANGED errMsg
    /\ UNCHANGED <<run, inputFiles, formattingOptions, canon, iters, inputSC,
                   fileCache, baseStyle, prevScore, optIdx, valNames, fmtProcs,
                   out, iterLog, rerun, prevStyle>>

\* A diff child: its shell opens (creates or truncates) the diff file.
DiffOpen(i) ==
    /\ pc = "diff"
    /\ i \in 1..Len(diffProcs)
    /\ diffProcs[i].st = "running"
    /\ LET d == str(diffProcs[i].val) IN
       /\ iters' = [iters EXCEPT ![curIter].sub[d].diff = <<EmptyText>>]
       /\ diffProcs' = [diffProcs EXCEPT
                          ![i].st = "opened",
                          ![i].wrote = @ \cup {getDiffFilename(curIter, diffProcs[i].val)}]
    /\ UNCHANGED <<run, pc, inputFiles, formattingOptions, canon, inputSC,
                   fileCache, baseStyle, prevScore, optIdx, valNames, fmtProcs,
                   errMsg, out, iterLog, rerun, prevStyle>>

\* A diff child: diff reads the sample and the formatted file, writes the
\* unified diff and exits.
DiffExit(i) ==
    /\ pc = "diff"
    /\ i \in 1..Len(diffProcs)
    /\ diffProcs[i].st = "opened"
    /\ LET d == str(diffProcs[i].val) IN
       \E o \in DiffOutputs(canonBytes, iters[curIter].sub[d].fmt) :
          iters' = [iters EXCEPT ![curIter].sub[d].diff = <<o>>]
    /\ diffProcs' = [diffProcs EXCEPT ![i].st = "exited"]
    /\ UNCHANGED <<run, pc, inputFiles, formattingOptions, canon, inputSC,
                   fileCache, baseStyle, prevScore, optIdx, valNames, fmtProcs,
                   errMsg, out, iterLog, rerun, prevStyle>>

\* experimentForOption, lines 261-294, and main's line 329: the diff batch
\* has been waited for; the candidates are scored and the option decided.
DiffJoin ==
    /\ pc = "diff"
    /\ waitAll(diffProcs)
    /\ \E results \in {sortResults(resultsOf(iters, curIter, valNames))} :
       \E minVal \in {results[1][1]}, maxVal \in {results[Len(results)][1]} :
       \E ignore \in {ignoreOption(minVal, maxVal, prevScore)} :
           /\ baseStyle' = IF ~ignore
                           THEN dictSet(baseStyle, curOpt.key, results[1][2])
                           ELSE baseStyle
           /\ prevScore' = nextPrevScore(minVal, prevScore)
    /\ optIdx' = optIdx + 1
    /\ pc' = "main"
    /\ UNCHANGED <<run, inputFiles, formattingOptions, canon, iters, inputSC,
                   fileCache, valNames, fmtProcs, diffProcs, errMsg, out,
                   iterLog, rerun, prevStyle>>

\* main, lines 332-336: the loop is over and the resulting style is printed.
MainFinish ==
    /\ pc = "main"
    /\ optIdx = Len(formattingOptions)
    /\ out' = <<yamlDump(baseStyle)>>
    /\ pc' = "done"
    /\ UNCHANGED <<run, inputFiles, formattingOptions, canon, iters, inputSC,
                   fileCache, baseStyle, prevScore, optIdx, valNames, fmtProcs,
                   diffProcs, errMsg, iterLog, rerun, prevStyle>>

Step ==
    \/ ExperimentStart
    \/ \E i \in 1..Len(fmtProcs) : FmtOpen(i)
    \/ \E i \in 1..Len(fmtProcs) : FmtExit(i)
    \/ FmtJoin
    \/ \E i \in 1..Len(diffProcs) : DiffOpen(i)
    \/ \E i \in 1..Len(diffProcs) : DiffExit(i)
    \/ DiffJoin
    \/ MainFinish

\* One run of the program on an empty dump directory.
Next == MainStart(1, InputFileLists, OptionLists) \/ Step

Spec == Init /\ [][Next]_vars

\* One run in which the program keeps executing and every child process
\* dispatched is eventually scheduled and eventually exits.
SpecFair == Init /\ [][Next]_vars /\ WF_vars(Step)

\* Several runs of the program, one after the other, on one dump directory.
NextRuns == MainStart(MaxRuns, RerunFileLists, RerunOptionLists) \/ Step

SpecRuns == Init /\ [][NextRuns]_vars

\* One run more than in SpecRuns, on one dump directory, over two samples
\* and an option list that a run may shorten and a later run lengthen again.
NextShrink == MainStart(MaxRuns + 1, ShrinkFileLists, ShrinkOptionLists) \/ Step

SpecShrink == Init /\ [][NextShrink]_vars

(***************************************************************************)
(* Notions the properties are stated in                                    *)
(***************************************************************************)
\* The candidate names of an option entry, in candidate-list order.
NamesOf(opt) == dictKeys(valNamesAndStyles(opt.key, opt.values))

\* The score of candidate n in iteration slot it: the marked lines of its
\* diff artifact.
ScoreAt(it, n) == scoreOf(iters[it].sub[str(n)].diff)

ScoresAt(it, names) == {ScoreAt(it, names[i]) : i \in 1..Len(names)}

MinScoreAt(it, names) == MinOf(ScoresAt(it, names))

MaxScoreAt(it, names) == MaxOf(ScoresAt(it, names))

\* The first candidate, in candidate-list order, that attains the minimum.
WinnerAt(it, names) ==
    names[MinOf({i \in 1..Len(names) : ScoreAt(it, names[i]) = MinScoreAt(it, names)})]

\* The candidates a batch dispatched a unit for, in dispatch order.
Dispatched(procList) == [i \in 1..Len(procList) |-> procList[i].val]

AllExited(procList) == \A i \in 1..Len(procList) : procList[i].st = "exited"

\* The step that scores the current option and decides it.
Decides == pc = "diff" /\ pc' = "main"

\* The lowest minimum score among the options already processed in this run.
BestEarlierMin ==
    MinOf({MinScoreAt(j, NamesOf(formattingOptions[j])) : j \in 1..optIdx})

\* The minimum score of the option processed just before the current one;
\* the initial threshold at the first option.
PreviousMin ==
    IF optIdx = 0 THEN 4 * inputSC.numLines
    ELSE MinScoreAt(optIdx, NamesOf(formattingOptions[optIdx]))

\* The first candidate, in list order, without a non-empty formatted artifact.
FirstMissing ==
    valNames[MinOf({i \in 1..Len(valNames) : ~hasFmtCache(iters, curIter, valNames[i])})]

SomeMissing == \E i \in 1..Len(valNames) : ~hasFmtCache(iters, curIter, valNames[i])

\* The number of units a batch dispatched for candidate n.
UnitsOf(procList, n) == Cardinality({i \in 1..Len(procList) : procList[i].val = n})

\* No two units of the batch wrote the same file, and every unit wrote only
\* inside the subdirectory of its own candidate.
IsolatedBatch(procList) ==
    /\ \A i, j \in 1..Len(procList) :
          i # j => procList[i].wrote \cap procList[j].wrote = {}
    /\ \A i \in 1..Len(procList) : \A path \in procList[i].wrote :
          /\ DirOf(path) = getValueDir(curIter, procList[i].val)
          /\ path # InputPath

(***************************************************************************)
(* C1.  A run that repeats the input files and the option list of the      *)
(* previous, completed run dispatches no formatter and no diff invocation  *)
(* in any iteration and ends with the style the previous run ended with.   *)
(***************************************************************************)
C1_RerunIdempotent ==
    rerun =>
        /\ fmtProcs = <<>>
        /\ diffProcs = <<>>
        /\ (pc = "done" => baseStyle = prevStyle)

(***************************************************************************)
(* C2.  In a run whose sample was dirty at the construction of the cache,  *)
(* every startIteration deletes and recreates the iteration directory, and *)
(* a formatter unit and a diff unit are dispatched for every candidate of  *)
(* the option, also when the recorded signature equals the new one.        *)
(***************************************************************************)
C2_DirtyRebuildsAll ==
    (inputSC.dirty /\ curIter >= 1) =>
        /\ iterLog.removed
        /\ Dispatched(fmtProcs) = valNames
        /\ (pc \in {"diff", "main", "done"} => Dispatched(diffProcs) = valNames)

\* A second run on a changed sample reaches an iteration whose recorded
\* signature equals the new one, and rebuilds it.
C2_Witness ==
    /\ run = 2
    /\ inputSC.dirty
    /\ pc = "diff"
    /\ iterLog.sameSig
    /\ iterLog.removed
    /\ Dispatched(diffProcs) = valNames

(***************************************************************************)
(* C3.  The acceptance step: with winner the first candidate in list order *)
(* that attains the minimum score, the style after the step is the style   *)
(* before it with style[key] = winner when minScore # maxScore and         *)
(* minScore < prevScore, and the style before it otherwise.                *)
(***************************************************************************)
C3_Acceptance ==
    [][Decides =>
        LET minScore == MinScoreAt(curIter, valNames)
            maxScore == MaxScoreAt(curIter, valNames)
            winner   == WinnerAt(curIter, valNames)
        IN  baseStyle' = IF minScore # maxScore /\ minScore < prevScore
                         THEN dictSet(baseStyle, curOpt.key, winner)
                         ELSE baseStyle]_vars

\* An option was accepted whose second and third candidates tie below the
\* first: the second one is the winner.
C3_Witness ==
    /\ pc = "main"
    /\ optIdx = 1
    /\ formattingOptions = <<ColumnOpt3>>
    /\ ScoreAt(1, PyInt("80")) > ScoreAt(1, PyInt("100"))
    /\ ScoreAt(1, PyInt("100")) = ScoreAt(1, PyInt("120"))
    /\ baseStyle = <<<<"ColumnLimit", PyInt("100")>>>>

(***************************************************************************)
(* C4.  Processing an option whose candidates all score the same (a single *)
(* candidate included) neither adds nor changes the entry of the option's  *)
(* key in the accumulated style, whatever prevScore is.                    *)
(***************************************************************************)
C4_TieNeverAccepted ==
    [][(Decides /\ MinScoreAt(curIter, valNames) = MaxScoreAt(curIter, valNames)) =>
        /\ dictHas(baseStyle', curOpt.key) = dictHas(baseStyle, curOpt.key)
        /\ dictHas(baseStyle, curOpt.key) =>
              dictGet(baseStyle', curOpt.key) = dictGet(baseStyle, curOpt.key)]_vars

\* The first option had two candidates that tied below the initial
\* threshold, and its key was left out.
C4_Witness ==
    /\ pc = "main"
    /\ optIdx = 1
    /\ Len(valNames) = 2
    /\ MinScoreAt(1, valNames) = MaxScoreAt(1, valNames)
    /\ MinScoreAt(1, valNames) < 4 * inputSC.numLines
    /\ baseStyle = <<>>

(***************************************************************************)
(* C5.  Before the first option prevScore is 4 times the line count of the *)
(* sample; after option i has been processed it is the minimum score among *)
(* option i's candidates, whether the option was accepted or skipped.      *)
(***************************************************************************)
C5_PrevScoreIsLastMin ==
    /\ (pc = "main" /\ optIdx = 0) => prevScore = 4 * inputSC.numLines
    /\ (pc \in {"main", "done"} /\ optIdx >= 1) =>
          prevScore = MinScoreAt(optIdx, NamesOf(formattingOptions[optIdx]))

\* The second option was skipped for non-improvement although its scores
\* differ, and prevScore went up to its minimum.
C5_Witness ==
    /\ pc = "main"
    /\ optIdx = 3
    /\ MinScoreAt(3, valNames) # MaxScoreAt(3, valNames)
    /\ MinScoreAt(3, valNames) > MinScoreAt(1, NamesOf(formattingOptions[1]))
    /\ ~dictHas(baseStyle, "ColumnLimit")
    /\ prevScore = MinScoreAt(3, valNames)

(***************************************************************************)
(* C6.  The first option of a run is never skipped for non-improvement:    *)
(* when its candidates are scored, the minimum score is below the initial  *)
(* threshold of 4 times the sample line count.                             *)
(***************************************************************************)
C6_FirstNeverSkipped ==
    (pc = "diff" /\ optIdx = 0 /\ AllExited(diffProcs)) =>
        ~(MinScoreAt(curIter, valNames) >= prevScore)

(***************************************************************************)
(* C7.  As claimed: an option whose minimum score is greater than or equal *)
(* to the lowest minimum score of the earlier options of the run is        *)
(* skipped.                                                                *)
(***************************************************************************)
C7_SkippedIfNoBetterThanBest ==
    [][(Decides /\ optIdx >= 1 /\ MinScoreAt(curIter, valNames) >= BestEarlierMin)
          => baseStyle' = baseStyle]_vars

(***************************************************************************)
(* C7, amended.  An option whose minimum score is greater than or equal to *)
(* the minimum score of the option processed just before it (for the first *)
(* option: to 4 times the sample line count) is skipped: the accumulated   *)
(* style is left as it was.                                                *)
(***************************************************************************)
C7_SkippedIfNoBetterThanPrevious ==
    [][(Decides /\ MinScoreAt(curIter, valNames) >= PreviousMin)
          => baseStyle' = baseStyle]_vars

\* The third option was skipped because its minimum equals that of the
\* second, although its own scores differ.
C7_Witness ==
    /\ pc = "main"
    /\ optIdx = 3
    /\ MinScoreAt(3, valNames) # MaxScoreAt(3, valNames)
    /\ MinScoreAt(3, valNames) = MinScoreAt(2, NamesOf(formattingOptions[2]))
    /\ ~dictHas(baseStyle, "ColumnLimit")

(***************************************************************************)
(* C8.  When, after the formatter batch, some candidate has no non-empty   *)
(* formatted artifact, the run aborts naming the artifact of the first     *)
(* such candidate; no diff unit is dispatched in that iteration, the       *)
(* accumulated style is not modified, nothing more happens in the run and  *)
(* no final style is printed.  Otherwise the run goes on to the diffs.     *)
(***************************************************************************)
C8_FatalAbort ==
    /\ [](pc = "aborted" =>
            /\ SomeMissing
            /\ errMsg = <<getFmtFilename(curIter, FirstMissing)>>
            /\ diffProcs = <<>>
            /\ out = <<>>
            /\ optIdx = curIter - 1)
    /\ [](pc \in {"diff", "done"} => errMsg = <<>>)
    /\ [][(pc = "fmt" /\ pc' # "fmt") =>
            /\ pc' = (IF SomeMissing THEN "aborted" ELSE "diff")
            /\ baseStyle' = baseStyle]_vars
    /\ [][pc = "aborted" => run' # run]_vars

\* The run aborted at its third option, where only the second candidate
\* failed, with a non-empty accumulated style.
C8_Witness ==
    /\ pc = "aborted"
    /\ optIdx = 2
    /\ baseStyle # <<>>
    /\ hasFmtCache(iters, curIter, valNames[1])
    /\ errMsg = <<getFmtFilename(3, PyInt("100"))>>

(***************************************************************************)
(* C9.  Within one option one formatter unit is dispatched per candidate   *)
(* that lacks a formatted artifact and one diff unit per candidate that    *)
(* lacks a diff artifact; no diff unit exists before every formatter unit  *)
(* has exited; the option is scored, and the next option started, only     *)
(* when every unit has exited.                                             *)
(***************************************************************************)
C9_BarrierOrdering ==
    /\ [](diffProcs # <<>> => AllExited(fmtProcs))
    /\ [](pc \in {"main", "done", "idle"} => AllExited(fmtProcs) /\ AllExited(diffProcs))
    /\ [](pc = "fmt" => diffProcs = <<>>)
    /\ [][(pc = "main" /\ pc' = "fmt") =>
            /\ Range(Dispatched(fmtProcs')) \subseteq Range(valNames')
            /\ \A n \in Range(valNames') :
                  UnitsOf(fmtProcs', n) =
                      (IF hasFmtCache(iters', curIter', n) THEN 0 ELSE 1)]_vars
    /\ [][(pc = "fmt" /\ pc' = "diff") =>
            /\ Range(Dispatched(diffProcs')) \subseteq Range(valNames)
            /\ \A n \in Range(valNames) :
                  UnitsOf(diffProcs', n) =
                      (IF hasDiffCache(iters, curIter, n) THEN 0 ELSE 1)]_vars
    /\ [][(Decides \/ fileCache'.iter # fileCache.iter) =>
            AllExited(fmtProcs) /\ AllExited(diffProcs)]_vars

\* A second run found one of two formatted artifacts in the cache and
\* dispatched the formatter for the other one only, then both diffs.
C9_Witness ==
    /\ run = 2
    /\ pc = "diff"
    /\ Len(valNames) = 2
    /\ Len(fmtProcs) = 1
    /\ Len(diffProcs) = 2
    /\ \E i \in 1..2 : diffProcs[i].st = "running"

(***************************************************************************)
(* C10.  In every interleaving of the units of a batch no two units write  *)
(* the same file; each unit writes only inside the subdirectory of its own *)
(* candidate, distinct candidate names of the option have distinct         *)
(* subdirectories, and the canonical sample is not written.                *)
(***************************************************************************)
C10_WriteIsolation ==
    /\ IsolatedBatch(fmtProcs)
    /\ IsolatedBatch(diffProcs)
    /\ \A i, j \in 1..Len(valNames) :
          valNames[i] # valNames[j] =>
              getValueDir(curIter, valNames[i]) # getValueDir(curIter, valNames[j])

(***************************************************************************)
(* C11.  At every point of a run, whatever the option list (one that       *)
(* repeats a key included), an entry key -> value present in the           *)
(* accumulated style stays present with the same value: processing an      *)
(* option only adds entries.                                               *)
(***************************************************************************)
C11_StyleMonotone ==
    [][run' = run =>
        \A i \in 1..Len(baseStyle) :
            /\ dictHas(baseStyle', baseStyle[i][1])
            /\ dictGet(baseStyle', baseStyle[i][1]) = baseStyle[i][2]]_vars

\* The style the formatter is meant to run under for candidate n of the
\* current option: the accumulated style with the candidate's override.
EffectiveStyle(n) ==
    dictUpdate(baseStyle, dictGet(valNamesAndStyles(curOpt.key, curOpt.values), n))

\* The step that opens the iteration of the next option.
Opens == pc = "main" /\ pc' = "fmt"

(***************************************************************************)
(* C12.  When startIteration finds a recorded signature for its slot whose *)
(* key or serialized base style differs from the new one, the slot is      *)
(* deleted and recreated: after the call the slot holds no formatted and   *)
(* no diff artifact and no style artifact but those just written, its      *)
(* recorded signature is the new (key, serialized accumulated style), and  *)
(* exactly the candidate names of the option have a subdirectory.          *)
(***************************************************************************)
C12_StaleSlotDiscarded ==
    [][(/\ Opens
        /\ iters[curIter'].key # <<>>
        /\ \/ iters[curIter'].key # <<curOpt.key>>
           \/ iters[curIter'].baseStyle # <<jsonDumps(baseStyle)>>) =>
        LET slot == iters'[curIter'] IN
        /\ slot.exists
        /\ slot.key = <<curOpt.key>>
        /\ slot.baseStyle = <<jsonDumps(baseStyle)>>
        /\ \A d \in DirNames :
              /\ slot.sub[d].fmt = <<>>
              /\ slot.sub[d].diff = <<>>
              /\ slot.sub[d].exists = (\E n \in Range(valNames') : str(n) = d)
              /\ slot.sub[d].style # <<>> =>
                    \E n \in Range(valNames') :
                        /\ str(n) = d
                        /\ slot.sub[d].style = <<yamlDump(EffectiveStyle(n))>>]_vars

\* A second run on the unchanged sample found, with a clean cache, a slot
\* recorded under another signature, and removed it.
C12_Witness ==
    /\ run = 2
    /\ pc = "fmt"
    /\ ~inputSC.dirty
    /\ iterLog.hadSig
    /\ ~iterLog.sameSig
    /\ ~iterLog.wasDirty
    /\ iterLog.removed

(***************************************************************************)
(* C13.  The style artifact of a candidate is written only when the        *)
(* candidate has none in the current iteration slot; a later call of       *)
(* writeStyleFile for the candidate, also with another style, leaves the   *)
(* stored artifact as it is: short of the removal of its slot, a style     *)
(* artifact once written is never rewritten.                               *)
(***************************************************************************)
C13_StyleWriteOnce ==
    [][/\ \A it \in 1..MaxIter : \A d \in DirNames :
            (/\ iters[it].sub[d].style # <<>>
             /\ ~(Opens /\ curIter' = it /\ iterLog'.removed)) =>
                iters'[it].sub[d].style = iters[it].sub[d].style
       /\ Opens =>
            \A i \in 1..Len(fmtProcs') :
               LET d == str(fmtProcs'[i].val) IN
               (iterLog'.removed \/ iters[curIter'].sub[d].style = <<>>) =>
                   \E n \in Range(valNames') :
                       /\ str(n) = d
                       /\ iters'[curIter'].sub[d].style = <<yamlDump(EffectiveStyle(n))>>]_vars

\* writeStyleFile was called for a candidate whose stored style artifact
\* differs from the style of the call, and the artifact was kept.
C13_Witness ==
    /\ pc = "fmt"
    /\ ~iterLog.removed
    /\ \E i \in 1..Len(fmtProcs) :
          LET n == fmtProcs[i].val IN
          /\ iters[curIter].sub[str(n)].style # <<>>
          /\ iters[curIter].sub[str(n)].style # <<yamlDump(EffectiveStyle(n))>>

(***************************************************************************)
(* C14.  Whenever the formatter is invoked for a candidate, in any run of  *)
(* a sequence of runs, the style artifact it reads is the effective style  *)
(* of that moment: the accumulated style with the candidate's current      *)
(* override applied.                                                       *)
(***************************************************************************)
C14_FormatterReadsEffectiveStyle ==
    pc = "fmt" =>
        \A i \in 1..Len(fmtProcs) :
            iters[curIter].sub[str(fmtProcs[i].val)].style
                = <<yamlDump(EffectiveStyle(fmtProcs[i].val))>>

(***************************************************************************)
(* C15.  Assembling the sample sets the dirty flag exactly when the new    *)
(* canonical content differs from the canonical copy found before the      *)
(* assembly, an absent copy counting as different; so the same unchanged   *)
(* input files assembled twice in a row are not dirty the second time.     *)
(***************************************************************************)
C15_DirtyIffChanged ==
    [][run' = run + 1 => (inputSC'.dirty <=> canon' # canon)]_vars

(***************************************************************************)
(* C16.  Provided every dispatched formatter and diff child eventually     *)
(* completes, a run eventually ends, with the final style or with the      *)
(* fatal abort.  It is a single forward pass: the position in the option   *)
(* list only moves forward, one option at a time; the iteration counter    *)
(* is increased by exactly one when an option starts to be processed and   *)
(* at no other step; and the option at position i is processed in          *)
(* iteration slot i.                                                       *)
(***************************************************************************)
C16_Termination ==
    /\ (pc \in {"main", "fmt", "diff"}) ~> (pc \in {"done", "aborted"})
    /\ [][run' = run =>
            /\ optIdx' \in {optIdx, optIdx + 1}
            /\ curIter' = IF Opens THEN curIter + 1 ELSE curIter]_vars
    /\ [](pc \in {"main", "done"} => curIter = optIdx)
    /\ [](pc = "done" => optIdx = Len(formattingOptions))
    /\ [](pc \in {"fmt", "diff", "aborted"} =>
            /\ curIter = optIdx + 1
            /\ curIter <= Len(formattingOptions)
            /\ iters[curIter].key = <<formattingOptions[curIter].key>>
            /\ valNames = NamesOf(formattingOptions[curIter]))

\* A run over three options has ended with the final style, the third
\* option having been processed in the third slot.
C16_Witness ==
    /\ pc = "done"
    /\ Len(formattingOptions) = 3
    /\ curIter = 3
    /\ iters[3].key = <<formattingOptions[3].key>>
    /\ out # <<>>

(***************************************************************************)
(* C17.  Over any sequence of runs, every formatted or diff artifact that  *)
(* a run scores without having regenerated it in that run was produced     *)
(* from a sample identical to the current canonical sample; also when the  *)
(* sample changes between runs and a run processes fewer iterations than   *)
(* a later one.                                                            *)
(***************************************************************************)
C17_ReusedArtifactsFromCurrentSample ==
    (pc = "diff" /\ AllExited(diffProcs)) =>
        \A n \in Range(valNames) :
            LET d == iters[curIter].sub[str(n)] IN
            /\ n \notin Range(Dispatched(fmtProcs)) => d.fmt[1].src = canonBytes
            /\ n \notin Range(Dispatched(diffProcs)) => d.diff[1].src = canonBytes

\* The step that opens an iteration leaves its slot rebuilt: no artifact of
\* an earlier run in it, a formatter dispatched for every candidate.
Rebuilt ==
    /\ \A d \in DirNames :
          /\ iters'[curIter'].sub[d].fmt = <<>>
          /\ iters'[curIter'].sub[d].diff = <<>>
          /\ iters'[curIter'].sub[d].exists = (\E n \in Range(valNames') : str(n) = d)
    /\ Range(Dispatched(fmtProcs')) = Range(valNames')

\* The signature recorded in the slot about to be opened is absent or is
\* not the signature of the option about to be processed.
SignatureStale ==
    \/ iters[curIter + 1].key # <<curOpt.key>>
    \/ iters[curIter + 1].baseStyle # <<jsonDumps(baseStyle)>>

(***************************************************************************)
(* C18.  Invalidation is sticky within a run.  The cache starts a run      *)
(* dirty exactly when the sample is dirty; it becomes dirty when           *)
(* startIteration finds the recorded signature absent or different; once   *)
(* dirty it stays dirty to the end of the run; and every iteration opened  *)
(* while it is dirty is deleted and rebuilt, also when that iteration's    *)
(* recorded key and base style equal its new signature.                    *)
(***************************************************************************)
C18_StickyInvalidation ==
    [][/\ run' = run + 1 => fileCache'.cacheDirty = inputSC'.dirty
       /\ (run' = run /\ fileCache.cacheDirty) => fileCache'.cacheDirty
       /\ Opens =>
            /\ fileCache'.cacheDirty = (fileCache.cacheDirty \/ SignatureStale)
            /\ fileCache.cacheDirty => Rebuilt]_vars

\* The second iteration of a run on an unchanged sample was deleted although
\* its recorded signature equalled the new one: the first iteration of the
\* run had been found stale.
C18_Witness ==
    /\ run = 2 /\ pc = "fmt" /\ curIter = 2
    /\ ~inputSC.dirty
    /\ iterLog.hadSig /\ iterLog.sameSig
    /\ iterLog.wasDirty /\ iterLog.removed

(***************************************************************************)
(* C19.  Immediately after an option is accepted, the accumulated style    *)
(* equals the effective style under which the winning candidate was        *)
(* formatted and scored: the accumulated style before the step with the    *)
(* winner's override applied; for bare-value candidates and for alias      *)
(* candidates with an override mapping alike.                              *)
(***************************************************************************)
C19_AcceptedIsMeasured ==
    [][(/\ Decides
        /\ MinScoreAt(curIter, valNames) # MaxScoreAt(curIter, valNames)
        /\ MinScoreAt(curIter, valNames) < prevScore) =>
            baseStyle' = EffectiveStyle(WinnerAt(curIter, valNames))]_vars

====
